---- MODULE Spec2Model ----
(***************************************************************************)
(* A model of node-tar's extraction core: the path reservation scheduler   *)
(* (PathReservations) and the per-entry state machine of Unpack.           *)
(*                                                                         *)
(* Strings are sequences of one-character strings, so that split, join,    *)
(* prefix tests and case folding are computed as the code computes them.   *)
(***************************************************************************)
EXTENDS Integers, Sequences, FiniteSets, TLC

(***************************************************************************)
(* Strings                                                                 *)
(***************************************************************************)

\* The characters "/" and "." and "\" as one-character strings.
SLASH == "/"
DOT == "."
BACKSLASH == "\\"

\* Sequence helpers mirroring the JS array / string methods used in the code.
Last(s) == s[Len(s)]
Front(s) == SubSeq(s, 1, Len(s) - 1)
Slice(s, n) == SubSeq(s, n + 1, Len(s))
Includes(s, x) == \E i \in 1..Len(s) : s[i] = x
StartsWith(s, p) == Len(p) <= Len(s) /\ SubSeq(s, 1, Len(p)) = p
Range(s) == {s[i] : i \in 1..Len(s)}

RECURSIVE SplitAcc(_, _, _, _)
SplitAcc(s, c, i, cur) ==
  IF i > Len(s) THEN <<cur>>
  ELSE IF s[i] = c THEN <<cur>> \o SplitAcc(s, c, i + 1, <<>>)
  ELSE SplitAcc(s, c, i + 1, Append(cur, s[i]))

\* String.prototype.split(c) for a one-character separator.
split(s, c) == SplitAcc(s, c, 1, <<>>)

RECURSIVE joinStr(_, _)
\* Array.prototype.join(c).
joinStr(parts, c) ==
  IF Len(parts) = 0 THEN <<>>
  ELSE IF Len(parts) = 1 THEN parts[1]
  ELSE parts[1] \o <<c>> \o joinStr(Tail(parts), c)

\* String.prototype.toLowerCase: every upper-case letter is folded.
lowerChar(c) ==
  CASE c = "A" -> "a"
    [] c = "B" -> "b"
    [] c = "C" -> "c"
    [] c = "D" -> "d"
    [] c = "E" -> "e"
    [] c = "F" -> "f"
    [] c = "G" -> "g"
    [] c = "H" -> "h"
    [] c = "I" -> "i"
    [] c = "J" -> "j"
    [] c = "K" -> "k"
    [] c = "L" -> "l"
    [] c = "M" -> "m"
    [] c = "N" -> "n"
    [] c = "O" -> "o"
    [] c = "P" -> "p"
    [] c = "Q" -> "q"
    [] c = "R" -> "r"
    [] c = "S" -> "s"
    [] c = "T" -> "t"
    [] c = "U" -> "u"
    [] c = "V" -> "v"
    [] c = "W" -> "w"
    [] c = "X" -> "x"
    [] c = "Y" -> "y"
    [] c = "Z" -> "z"
    [] OTHER -> c

toLowerCase(s) == [i \in 1..Len(s) |-> lowerChar(s[i])]

(***************************************************************************)
(* node:path (posix flavour)                                               *)
(***************************************************************************)

RECURSIVE normalizeString(_, _, _)
\* Resolves "." and ".." segments and drops empty ones; segs are the
\* "/"-separated segments still to read, res the segments kept so far.
normalizeString(segs, res, allowAboveRoot) ==
  IF Len(segs) = 0 THEN res
  ELSE LET seg == Head(segs)
           rest == Tail(segs)
       IN IF seg = <<>> \/ seg = <<DOT>> THEN
            normalizeString(rest, res, allowAboveRoot)
          ELSE IF seg = <<DOT, DOT>> THEN
            IF Len(res) > 0 /\ Last(res) # <<DOT, DOT>> THEN
              normalizeString(rest, Front(res), allowAboveRoot)
            ELSE IF allowAboveRoot THEN
              normalizeString(rest, Append(res, seg), allowAboveRoot)
            ELSE normalizeString(rest, res, allowAboveRoot)
          ELSE normalizeString(rest, Append(res, seg), allowAboveRoot)

pathIsAbsolute(p) == Len(p) > 0 /\ p[1] = SLASH

\* path.normalize
pathNormalize(p) ==
  IF Len(p) = 0 THEN <<DOT>>
  ELSE LET isAbs == p[1] = SLASH
           trailing == Last(p) = SLASH
           body == joinStr(normalizeString(split(p, SLASH), <<>>, ~isAbs), SLASH)
       IN IF Len(body) = 0 THEN
            (IF isAbs THEN <<SLASH>>
             ELSE IF trailing THEN <<DOT, SLASH>> ELSE <<DOT>>)
          ELSE LET b2 == IF trailing THEN Append(body, SLASH) ELSE body
               IN IF isAbs THEN <<SLASH>> \o b2 ELSE b2

\* path.join(a) with one argument
pathJoin1(a) == pathNormalize(a)

\* path.join(a, b)
pathJoin2(a, b) ==
  IF Len(a) = 0 /\ Len(b) = 0 THEN <<DOT>>
  ELSE IF Len(a) = 0 THEN pathNormalize(b)
  ELSE IF Len(b) = 0 THEN pathNormalize(a)
  ELSE pathNormalize(a \o <<SLASH>> \o b)

\* path.resolve(base, p), base an absolute path
pathResolve(base, p) ==
  LET full == IF pathIsAbsolute(p) THEN p
              ELSE IF Len(p) = 0 THEN base
              ELSE base \o <<SLASH>> \o p
      body == joinStr(normalizeString(split(full, SLASH), <<>>, FALSE), SLASH)
  IN <<SLASH>> \o body

RECURSIVE dropTrailingSlashes(_)
dropTrailingSlashes(p) ==
  IF Len(p) > 1 /\ Last(p) = SLASH THEN dropTrailingSlashes(Front(p)) ELSE p

RECURSIVE lastSlashFrom(_, _)
\* The greatest position k with 2 <= k <= i and p[k] = "/", or 0.
lastSlashFrom(p, i) ==
  IF i < 2 THEN 0 ELSE IF p[i] = SLASH THEN i ELSE lastSlashFrom(p, i - 1)

\* path.dirname
pathDirname(p) ==
  IF Len(p) = 0 THEN <<DOT>>
  ELSE LET hasRoot == p[1] = SLASH
           q == dropTrailingSlashes(p)
           k == lastSlashFrom(q, Len(q))
       IN IF k = 0 THEN (IF hasRoot THEN <<SLASH>> ELSE <<DOT>>)
          ELSE IF hasRoot /\ k = 2 THEN <<SLASH, SLASH>>
          ELSE SubSeq(q, 1, k - 1)

(***************************************************************************)
(* Path canonicalizer: the pure transforms of normalize-unicode.js,        *)
(* normalize-windows-path.js, strip-trailing-slashes.js and                *)
(* strip-absolute-path.js, whose contracts are section 4.1 of the          *)
(* specification.  The host platform of the extraction is held in the      *)
(* variable platform, the normal form normalize-unicode.js applies in the  *)
(* variable normalization.                                                 *)
(***************************************************************************)

\* FULLWIDTH REVERSE SOLIDUS: a code point that has a compatibility
\* decomposition, to "\", and no canonical one.  It is in the paths of
\* test/normalize-unicode.js.
FWBACKSLASH == "U+FF3C"

\* The two spellings of one character that normalizeUnicode brings together
\* (cafe1 and cafe2 of the test): LATIN SMALL LETTER E WITH ACUTE, and "e"
\* followed by COMBINING ACUTE ACCENT.
EACUTE == "U+00E9"
ACUTE == "U+0301"

\* The decomposition of a string under a normal form: the canonical one
\* under every form, and the compatibility one as well under "NFKC".
RECURSIVE decompose(_, _)
decompose(form, s) ==
  IF s = <<>> THEN <<>>
  ELSE (IF Head(s) = EACUTE THEN <<"e", ACUTE>>
        ELSE IF form = "NFKC" /\ Head(s) = FWBACKSLASH THEN <<BACKSLASH>>
        ELSE <<Head(s)>>) \o decompose(form, Tail(s))

\* The canonical composition of a decomposed string
RECURSIVE compose(_)
compose(s) ==
  IF s = <<>> THEN <<>>
  ELSE IF Len(s) >= 2 /\ s[1] = "e" /\ s[2] = ACUTE
    THEN <<EACUTE>> \o compose(Tail(Tail(s)))
  ELSE <<Head(s)>> \o compose(Tail(s))

\* normalizeWindowsPath: on Windows platforms "\" becomes "/".
normalizeWindowsPathOn(isWin, s) ==
  IF isWin THEN [i \in 1..Len(s) |-> IF s[i] = BACKSLASH THEN SLASH ELSE s[i]]
  ELSE s

RECURSIVE stripSlashesEnd(_)
stripSlashesEnd(s) ==
  IF Len(s) > 0 /\ Last(s) = SLASH THEN stripSlashesEnd(Front(s)) ELSE s

\* stripTrailingSlashes: any number of trailing "/" removed, except when the
\* entire path is "/".
stripTrailingSlashes(s) == IF s = <<SLASH>> THEN s ELSE stripSlashesEnd(s)

RECURSIVE leadingSlashes(_)
leadingSlashes(s) ==
  IF Len(s) > 0 /\ s[1] = SLASH THEN 1 + leadingSlashes(Tail(s)) ELSE 0

\* stripAbsolutePath: <<root, remainder>>; root is empty for a relative path.
stripAbsolutePath(s) ==
  LET n == leadingSlashes(s) IN <<SubSeq(s, 1, n), Slice(s, n)>>

(***************************************************************************)
(* State                                                                   *)
(***************************************************************************)

VARIABLES
  platform,      \* process.platform: "linux" or "win32"
  normalization, \* the normal form of normalize-unicode.js: "NFKC" or "NFD"
  queues,        \* PathReservations.#queues: path -> sequence of slots
  reservations,  \* PathReservations.#reservations: fn -> [paths, dirs]
  running,       \* PathReservations.#running
  startOrder,    \* history: the handlers in the order #run invoked them
  released,      \* history: the handlers whose release callback cleared them
  opt,           \* the options of the Unpack, as its constructor stored them
  archive,       \* the entries the parser will emit, in archive order
  entries,       \* the entries emitted so far, each with its handler's state
  PENDING,       \* Unpack[PENDING]
  ENDED,         \* Unpack[ENDED]
  CHECKED_CWD,   \* Unpack[CHECKED_CWD]
  dirCache,      \* Unpack.dirCache: the directories known to exist
  events         \* history: the lifecycle and error events emitted

vars == <<platform, normalization, queues, reservations, running, startOrder, released,
          opt, archive, entries, PENDING, ENDED, CHECKED_CWD, dirCache,
          events>>

\* The mutable state as one record, so that the synchronous pieces of a
\* handler compose as functions from state to state.
cur ==
  [queues |-> queues, reservations |-> reservations, running |-> running,
   startOrder |-> startOrder, released |-> released, entries |-> entries,
   PENDING |-> PENDING, ENDED |-> ENDED, CHECKED_CWD |-> CHECKED_CWD,
   dirCache |-> dirCache, events |-> events]

Commit(S) ==
  /\ queues' = S.queues
  /\ reservations' = S.reservations
  /\ running' = S.running
  /\ startOrder' = S.startOrder
  /\ released' = S.released
  /\ entries' = S.entries
  /\ PENDING' = S.PENDING
  /\ ENDED' = S.ENDED
  /\ CHECKED_CWD' = S.CHECKED_CWD
  /\ dirCache' = S.dirCache
  /\ events' = S.events
  /\ UNCHANGED <<platform, normalization, opt, archive>>

isWindows == platform = "win32"

\* normalizeUnicode.  Section 4.1 of the specification words it as a
\* compatibility decomposition followed by a canonical composition
\* ("NFKC"); test/normalize-unicode.js expects what a canonical
\* decomposition alone gives ("NFD"): one form for cafe1 and cafe2, and the
\* same string from both orders of the transforms for paths that hold
\* U+FF3C.  The module is not among the sources, so the form is a choice the
\* initial state makes.
normalizeUnicode(s) ==
  IF normalization = "NFKC" THEN compose(decompose("NFKC", s))
  ELSE decompose("NFD", s)

(***************************************************************************)
(* PathReservations                                                        *)
(***************************************************************************)

\* Set.prototype.add on an insertion-ordered Set, held as a sequence.
SetAdd(set, x) == IF Includes(set, x) THEN set ELSE Append(set, x)

RECURSIVE SetAddAll(_, _)
SetAddAll(set, xs) ==
  IF Len(xs) = 0 THEN set ELSE SetAddAll(SetAdd(set, Head(xs)), Tail(xs))

\* Set.prototype.delete
SetDelete(set, x) == SelectSeq(set, LAMBDA y : y # x)

\* A slot of a queue: a handler (a direct reservation of the path) or a Set
\* of handlers (a directory reservation).
FnSlot(fn) == [isSet |-> FALSE, fn |-> fn, members |-> <<>>]
SetSlot(members) == [isSet |-> TRUE, fn |-> 0, members |-> members]

\* Map.prototype.set / delete on #queues
QSet(q, k, v) == [x \in DOMAIN q \cup {k} |-> IF x = k THEN v ELSE q[x]]
QDelete(q, k) == [x \in DOMAIN q \ {k} |-> q[x]]

RECURSIVE getDirsAcc(_, _)
getDirsAcc(segs, set) ==
  IF Len(segs) = 0 THEN set
  ELSE LET joined == IF Len(set) > 0 THEN pathJoin2(Last(set), Head(segs))
                     ELSE Head(segs)
           dir == IF Len(joined) = 0 THEN <<SLASH>> ELSE joined
       IN getDirsAcc(Tail(segs), Append(set, dir))

\* getDirs: the parent directories of a path, outermost first.
getDirs(path) == getDirsAcc(Front(split(path, SLASH)), <<>>)

\* The key every reservation uses on Windows.
WIN32_DISABLED == <<"win32 parallelization disabled">>

\* The key reserve() computes for one path.
reserveKey(p) ==
  toLowerCase(stripTrailingSlashes(pathJoin1(normalizeUnicode(p))))

\* reserve(): the canonical paths of the call.
reservePaths(paths) ==
  IF isWindows THEN <<WIN32_DISABLED>>
  ELSE [i \in 1..Len(paths) |-> reserveKey(paths[i])]

\* reserve(): paths.map(getDirs).reduce((a, b) => a.concat(b)).  reduce has
\* no initial value: on the empty list it throws a TypeError, on a list of
\* one it returns that one.
RECURSIVE concatDirs(_)
concatDirs(paths) ==
  IF Len(paths) = 0 THEN [threw |-> TRUE, value |-> <<>>]
  ELSE IF Len(paths) = 1
    THEN [threw |-> FALSE, value |-> getDirs(Head(paths))]
  ELSE [threw |-> FALSE,
        value |-> getDirs(Head(paths)) \o concatDirs(Tail(paths)).value]

\* reserve(): new Set(paths.map(getDirs).reduce(concat)), unless reduce threw
reserveDirs(paths) ==
  LET asSet(r) == IF r.threw THEN r
                  ELSE [threw |-> FALSE, value |-> SetAddAll(<<>>, r.value)]
  IN asSet(concatDirs(paths))

RECURSIVE pushPaths_unshift(_, _, _)
\* pushPaths with unshift in place of push.
pushPaths_unshift(q, paths, fn) ==
  IF Len(paths) = 0 THEN q
  ELSE LET p == Head(paths)
           q2 == IF p \notin DOMAIN q THEN QSet(q, p, <<FnSlot(fn)>>)
                 ELSE QSet(q, p, <<FnSlot(fn)>> \o q[p])
       IN pushPaths_unshift(q2, Tail(paths), fn)

RECURSIVE pushPaths(_, _, _)
\* reserve(): the loop that queues fn on each of its paths.
pushPaths(q, paths, fn) ==
  IF Len(paths) = 0 THEN q
  ELSE LET p == Head(paths)
           q2 == IF p \notin DOMAIN q THEN QSet(q, p, <<FnSlot(fn)>>)
                 ELSE QSet(q, p, Append(q[p], FnSlot(fn)))
       IN pushPaths(q2, Tail(paths), fn)

RECURSIVE pushDirs_newSlot(_, _, _)
\* pushDirs that never joins the shared slot at the tail of a queue.
pushDirs_newSlot(q, dirs, fn) ==
  IF Len(dirs) = 0 THEN q
  ELSE LET d == Head(dirs)
           q2 == IF d \notin DOMAIN q THEN QSet(q, d, <<SetSlot(<<fn>>)>>)
                 ELSE QSet(q, d, Append(q[d], SetSlot(<<fn>>)))
       IN pushDirs_newSlot(q2, Tail(dirs), fn)

RECURSIVE pushDirs(_, _, _)
\* reserve(): the loop that adds fn to the directory slot of each of its dirs.
pushDirs(q, dirs, fn) ==
  IF Len(dirs) = 0 THEN q
  ELSE LET d == Head(dirs)
           q2 == IF d \notin DOMAIN q THEN QSet(q, d, <<SetSlot(<<fn>>)>>)
                 ELSE LET l == Last(q[d])
                      IN IF l.isSet
                         THEN QSet(q, d, Append(Front(q[d]),
                                                SetSlot(SetAdd(l.members, fn))))
                         ELSE QSet(q, d, Append(q[d], SetSlot(<<fn>>)))
       IN pushDirs(q2, Tail(dirs), fn)

\* check(fn) with the test of the path queues left out.
check_dirsOnly(q, res, fn) ==
  \A i \in 1..Len(res[fn].dirs) :
    LET d == res[fn].dirs[i]
    IN d \in DOMAIN q /\ q[d][1].isSet /\ Includes(q[d][1].members, fn)

\* check(fn) with the test of the directory queues left out.
check_pathsOnly(q, res, fn) ==
  \A i \in 1..Len(res[fn].paths) :
    LET p == res[fn].paths[i]
    IN p \in DOMAIN q /\ q[p][1] = FnSlot(fn)

\* check(fn): first in line for all its paths, and in the first Set of all
\* its directory queues.
check(q, res, fn) ==
  /\ \A i \in 1..Len(res[fn].paths) :
       LET p == res[fn].paths[i]
       IN p \in DOMAIN q /\ q[p][1] = FnSlot(fn)
  /\ \A i \in 1..Len(res[fn].dirs) :
       LET d == res[fn].dirs[i]
       IN d \in DOMAIN q /\ q[d][1].isSet /\ Includes(q[d][1].members, fn)

\* #run(fn): whether fn is started now.
runs(q, res, run, fn) == fn \notin run /\ check(q, res, fn)

RECURSIVE runAll(_, _, _, _)
\* next.forEach(fn => this.#run(fn)): the handlers started, in order.
runAll(q, res, run, next) ==
  IF Len(next) = 0 THEN <<>>
  ELSE IF runs(q, res, run, Head(next))
       THEN <<Head(next)>> \o runAll(q, res, run \cup {Head(next)}, Tail(next))
       ELSE runAll(q, res, run, Tail(next))

RECURSIVE clearPaths(_, _, _)
\* #clear: the loop over the paths of fn; st = [q, next].
clearPaths(st, paths, fn) ==
  IF Len(paths) = 0 THEN st
  ELSE LET p == Head(paths)
           q == st.q
           st2 ==
             IF p \notin DOMAIN q \/ q[p][1] # FnSlot(fn) THEN st
             ELSE IF Len(q[p]) < 2 THEN [st EXCEPT !.q = QDelete(q, p)]
             ELSE LET q0 == q[p][2]
                  IN [q |-> QSet(q, p, Tail(q[p])),
                      next |-> IF q0.isSet THEN SetAddAll(st.next, q0.members)
                               ELSE SetAdd(st.next, q0.fn)]
       IN clearPaths(st2, Tail(paths), fn)

RECURSIVE clearDirs(_, _, _)
\* #clear: the loop over the dirs of fn; st = [q, next].
clearDirs(st, dirs, fn) ==
  IF Len(dirs) = 0 THEN st
  ELSE LET d == Head(dirs)
           q == st.q
           st2 ==
             IF d \notin DOMAIN q \/ ~q[d][1].isSet THEN st
             ELSE LET q0 == q[d][1]
                  IN IF Len(q0.members) = 1 /\ Len(q[d]) = 1
                     THEN [st EXCEPT !.q = QDelete(q, d)]
                     ELSE IF Len(q0.members) = 1
                     THEN LET n == q[d][2]
                          IN [q |-> QSet(q, d, Tail(q[d])),
                              next |-> IF n.isSet THEN st.next
                                       ELSE SetAdd(st.next, n.fn)]
                     ELSE [st EXCEPT !.q =
                             QSet(q, d, <<SetSlot(SetDelete(q0.members, fn))>>
                                        \o Tail(q[d]))]
       IN clearDirs(st2, Tail(dirs), fn)

\* clearQueues that walks the distinct paths of fn, once each.
clearQueues_distinct(q, res, fn) ==
  clearDirs(clearPaths([q |-> q, next |-> <<>>],
                       SetAddAll(<<>>, res[fn].paths), fn),
            res[fn].dirs, fn)

\* #clear(fn) for a running fn: the queues afterwards and the handlers to try.
clearQueues(q, res, fn) ==
  clearDirs(clearPaths([q |-> q, next |-> <<>>], res[fn].paths, fn),
            res[fn].dirs, fn)

(***************************************************************************)
(* The scheduler on its own: handlers are numbered in the order of their   *)
(* reserve() calls; a started handler releases at any later moment.        *)
(***************************************************************************)

\* How many handlers are passed to reserve() in one behaviour.
MaxHandlers == 3

\* The path lists handed to reserve(): single paths, a path and its
\* ancestor, siblings, a repeated path, and spellings that differ only in
\* case or in a trailing slash.
PathLists ==
  { << <<"a">> >>,
    << <<"a", "/", "b">> >>,
    << <<"a", "/", "c">> >>,
    << <<"A", "/", ".", "/", "B", "/">> >>,
    << <<"a", "/", "b", "/", "d">> >>,
    << <<"a", "/", "b">>, <<"a", "/", "c">> >>,
    << <<"a", "/", "b">>, <<"a">> >>,
    << <<"a", "/", "c">>, <<"a", "/", "c">> >>,
    << <<"/", "a">>, <<"b">> >> }

reserved == DOMAIN reservations
started == Range(startOrder)

\* reserve(paths, fn) up to the call of #run: the reservation is recorded
\* and fn is queued.  When the reduce throws, nothing has been recorded
\* or queued yet.
reserveQueued(S, paths, fn) ==
  LET queued(ps, ds) ==
        IF ds.threw THEN S
        ELSE [S EXCEPT
                !.reservations =
                   [f \in DOMAIN S.reservations \cup {fn} |->
                      IF f = fn THEN [paths |-> ps, dirs |-> ds.value]
                      ELSE S.reservations[f]],
                !.queues = pushDirs(pushPaths(S.queues, ps, fn), ds.value, fn)]
      withDirs(ps) == queued(ps, reserveDirs(ps))
  IN withDirs(reservePaths(paths))

\* #run(fn) up to the call of fn: fn joins #running.
markRunning(S, fn) ==
  [S EXCEPT !.running = @ \cup {fn}, !.startOrder = Append(@, fn)]

\* #clear(fn) up to next.forEach: [S, next].
clearReservation(S, fn) ==
  LET st == clearQueues(S.queues, S.reservations, fn)
  IN [S |-> [S EXCEPT !.queues = st.q,
                      !.running = @ \ {fn},
                      !.released = @ \cup {fn}],
      next |-> st.next]

RECURSIVE markAll(_, _)
markAll(S, fns) ==
  IF Len(fns) = 0 THEN S ELSE markAll(markRunning(S, Head(fns)), Tail(fns))

\* No extraction: the state of the Unpack variables while the scheduler is
\* exercised on its own.
NoUnpack ==
  /\ opt = [cwd |-> <<SLASH>>]
  /\ archive = <<>>
  /\ entries = <<>>
  /\ PENDING = 0
  /\ ENDED = FALSE
  /\ CHECKED_CWD = FALSE
  /\ dirCache = {}
  /\ events = <<>>

InitPR ==
  /\ platform \in {"linux", "win32"}
  /\ normalization \in {"NFKC", "NFD"}
  /\ queues = << >>
  /\ reservations = << >>
  /\ running = {}
  /\ startOrder = <<>>
  /\ released = {}
  /\ NoUnpack

\* reserve(paths, fn) with a handler that does nothing before it returns.
\* When the reduce throws, fn is not recorded, #run is not reached and fn is
\* never called.
reserve(paths, fn) ==
  LET S1 == reserveQueued(cur, paths, fn)
  IN IF fn \notin DOMAIN S1.reservations THEN Commit(cur)
     ELSE Commit(IF runs(S1.queues, S1.reservations, S1.running, fn)
                 THEN markRunning(S1, fn) ELSE S1)

\* #clear(fn), the release callback of a running fn
clear(fn) ==
  LET c == clearReservation(cur, fn)
  IN Commit(markAll(c.S, runAll(c.S.queues, c.S.reservations, c.S.running,
                                c.next)))

Reserve ==
  /\ Cardinality(reserved) < MaxHandlers
  /\ \E paths \in PathLists : reserve(paths, Cardinality(reserved) + 1)

Release == \E fn \in running : clear(fn)

NextPR == Reserve \/ Release

SpecPR == InitPR /\ [][NextPR]_vars

(***************************************************************************)
(* winchars.js and path.win32.parse                                        *)
(***************************************************************************)

COLON == ":"
\* The private-use twin of ":" (0xF000 + code point).
PUA_COLON == "U+F03A"

\* wc.encode: each Windows-reserved character becomes its private-use twin.
wcEncode(s) == [i \in 1..Len(s) |-> IF s[i] = COLON THEN PUA_COLON ELSE s[i]]

\* The characters /[a-z]/i matches, and isWindowsDeviceRoot accepts
Letters ==
  {"a", "b", "c", "d", "e", "f", "g", "h", "i", "j", "k", "l", "m", "n",
   "o", "p", "q", "r", "s", "t", "u", "v", "w", "x", "y", "z",
   "A", "B", "C", "D", "E", "F", "G", "H", "I", "J", "K", "L", "M", "N",
   "O", "P", "Q", "R", "S", "T", "U", "V", "W", "X", "Y", "Z"}
isPathSeparator(c) == c = SLASH \/ c = BACKSLASH

\* The first position from k on that holds a separator, or no separator;
\* Len(s) + 1 when there is none.
RECURSIVE skipNonSeparators(_, _)
skipNonSeparators(s, k) ==
  IF k <= Len(s) /\ ~isPathSeparator(s[k]) THEN skipNonSeparators(s, k + 1)
  ELSE k
RECURSIVE skipSeparators(_, _)
skipSeparators(s, k) ==
  IF k <= Len(s) /\ isPathSeparator(s[k]) THEN skipSeparators(s, k + 1)
  ELSE k

\* path.win32.parse: rootEnd of a path that begins with two separators.
\* A UNC root is two separators, a server name, separators and a share
\* name, with the separator that follows it; anything else has the root of
\* one separator.
uncRootEnd(s) ==
  LET end == Len(s) + 1
      j1 == skipNonSeparators(s, 3)
      j2 == skipSeparators(s, j1)
      j3 == skipNonSeparators(s, j2)
  IN IF j1 < end /\ j1 # 3 /\ j2 < end /\ j2 # j1
     THEN (IF j3 = end THEN Len(s)
           ELSE IF j3 # j2 THEN j3
           ELSE 1)
     ELSE 1

\* path.win32.parse(s).root
win32Root(s) ==
  IF Len(s) = 0 THEN <<>>
  ELSE IF Len(s) = 1 THEN (IF isPathSeparator(s[1]) THEN s ELSE <<>>)
  ELSE IF isPathSeparator(s[1]) THEN
         (IF isPathSeparator(s[2]) THEN SubSeq(s, 1, uncRootEnd(s))
          ELSE <<s[1]>>)
  ELSE IF s[1] \in Letters /\ s[2] = COLON THEN
         (IF Len(s) >= 3 /\ isPathSeparator(s[3]) THEN SubSeq(s, 1, 3)
          ELSE SubSeq(s, 1, 2))
  ELSE <<>>

(***************************************************************************)
(* Unpack: options and entries                                             *)
(***************************************************************************)

DEFAULT_MAX_DEPTH == 1024

\* Entry kinds handled by ONENTRY's switch.
DirTypes == {"Directory", "GNUDumpDir"}
FileTypes == {"File", "OldFile", "ContiguousFile"}

normalizeWindowsPath(s) == normalizeWindowsPathOn(isWindows, s)

\* What CHECKPATH does to an entry under options o: [ok, path, linkpath,
\* absolute, warns]; warns are the <<code, message>> pairs of this.warn.
\* A '..' test that finds nothing
containsDotDot_never(parts) == FALSE

\* parts.includes('..')
containsDotDot(parts) == Includes(parts, <<DOT, DOT>>)

CHECKPATH(o, e) ==
  LET p == normalizeWindowsPath(e.path)
      parts0 == split(p, SLASH)
      stripping == o.strip # 0
      linkparts == split(normalizeWindowsPath(e.linkpath), SLASH)
      tooShort == stripping /\ Len(parts0) < o.strip
      linkTooShort == stripping /\ e.type = "Link" /\ Len(linkparts) < o.strip
      linkpath1 == IF stripping /\ e.type = "Link" /\ ~linkTooShort
                   THEN joinStr(Slice(linkparts, o.strip), SLASH)
                   ELSE e.linkpath
      parts == IF stripping THEN Slice(parts0, o.strip) ELSE parts0
      path1 == IF stripping THEN joinStr(parts, SLASH) ELSE e.path
      tooDeep == o.maxDepthFinite /\ Len(parts) > o.maxDepth
      part0 == IF Len(parts) > 0 THEN parts[1] ELSE <<>>
      driveDotdot == /\ isWindows
                     /\ Len(part0) = 4
                     /\ part0[1] \in Letters
                     /\ SubSeq(part0, 2, 4) = <<COLON, DOT, DOT>>
      dotdot == ~o.preservePaths
                /\ (containsDotDot(parts) \/ driveDotdot)
      rs == stripAbsolutePath(p)
      rooted == ~o.preservePaths /\ Len(rs[1]) > 0
      path2 == IF rooted THEN rs[2] ELSE path1
      absolute1 == IF pathIsAbsolute(path2)
                   THEN normalizeWindowsPath(pathResolve(<<SLASH>>, path2))
                   ELSE normalizeWindowsPath(pathResolve(o.cwd, path2))
      escaped == /\ ~o.preservePaths
                 /\ ~StartsWith(absolute1, Append(o.cwd, SLASH))
                 /\ absolute1 # o.cwd
      replacesCwd == absolute1 = o.cwd /\ e.type \notin DirTypes
      aRoot == win32Root(absolute1)
      pRoot == win32Root(path2)
      absolute2 == IF o.win32
                   THEN aRoot \o wcEncode(Slice(absolute1, Len(aRoot)))
                   ELSE absolute1
      path3 == IF o.win32 THEN pRoot \o wcEncode(Slice(path2, Len(pRoot)))
               ELSE path2
      rejected(pth, lp, abs, w) ==
        [ok |-> FALSE, path |-> pth, linkpath |-> lp, absolute |-> abs,
         warns |-> w]
      infoWarn == IF rooted THEN << <<"TAR_ENTRY_INFO", "stripping root">> >>
                  ELSE <<>>
  IN IF tooShort \/ linkTooShort
       THEN rejected(e.path, e.linkpath, <<>>, <<>>)
     ELSE IF tooDeep
       THEN rejected(path1, linkpath1, <<>>,
                     << <<"TAR_ENTRY_ERROR", "path excessively deep">> >>)
     ELSE IF dotdot
       THEN rejected(path1, linkpath1, <<>>,
                     << <<"TAR_ENTRY_ERROR", "path contains '..'">> >>)
     ELSE IF escaped
       THEN rejected(path2, linkpath1, absolute1,
                     Append(infoWarn, <<"TAR_ENTRY_ERROR",
                                        "path escaped extraction target">>))
     ELSE IF replacesCwd THEN rejected(path2, linkpath1, absolute1, infoWarn)
     ELSE [ok |-> TRUE, path |-> path3, linkpath |-> linkpath1,
           absolute |-> absolute2, warns |-> infoWarn]

(***************************************************************************)
(* Unpack: the synchronous pieces, as functions from state to state        *)
(***************************************************************************)

\* The value undefined of an optional number (mode, uid, gid).
UNDEFINED == -1

\* mode | 0o700
orOwnerBits(mode) == mode + (7 - ((mode \div 64) % 8)) * 64

\* cacheKeyNormalize
cacheKeyNormalize(p) ==
  toLowerCase(stripTrailingSlashes(normalizeWindowsPath(normalizeUnicode(p))))

\* pruneCache(cache, abs)
pruneCache(cache, abs) ==
  LET a == cacheKeyNormalize(abs)
  IN {k \in cache :
        LET pnorm == cacheKeyNormalize(k)
        IN ~(pnorm = a \/ StartsWith(pnorm, Append(a, SLASH)))}

\* dropCache(cache)
dropCache(cache) == {}

\* Unpack[PRUNECACHE]
PRUNECACHE(S, i) ==
  LET e == S.entries[i]
  IN IF e.type = "SymbolicLink"
       THEN [S EXCEPT !.dirCache = dropCache(@)]
     ELSE IF e.type # "Directory"
       THEN [S EXCEPT !.dirCache = pruneCache(@, e.absolute)]
     ELSE S

\* MAYBECLOSE that does not look at ENDED
MAYBECLOSE_onZero(S) ==
  IF S.PENDING = 0
  THEN [S EXCEPT !.events = @ \o <<"prefinish", "finish", "end">>]
  ELSE S

\* Unpack[MAYBECLOSE]
MAYBECLOSE(S) ==
  IF S.ENDED /\ S.PENDING = 0
  THEN [S EXCEPT !.events = @ \o <<"prefinish", "finish", "end">>]
  ELSE S

\* Unpack[PEND]
PEND(S) == [S EXCEPT !.PENDING = @ + 1]

\* Unpack[UNPEND]
UNPEND(S) == MAYBECLOSE([S EXCEPT !.PENDING = @ - 1])

\* entry.resume(), and entry.pipe(...): the payload is consumed and the
\* parser may go on to the next entry.
resume(S, i) == [S EXCEPT !.entries[i].drained = TRUE]

\* this.warn(code, message, {entry})
warn(S, i, code, msg) ==
  [S EXCEPT !.entries[i].warns = Append(@, <<code, msg>>)]

\* A SKIP that resumes the entry and leaves PENDING alone
SKIP_noUnpend(S, i) == resume(S, i)

\* Unpack[SKIP]
SKIP(S, i) == resume(UNPEND(S), i)

\* ONERROR that treats every error as a per-entry error
ONERROR_perEntry(S, i, er) ==
  resume(UNPEND(warn(S, i, "TAR_ENTRY_ERROR", er)), i)

\* Unpack[ONERROR]; er names the error: "CwdError", or the call that failed.
ONERROR(S, i, er) ==
  IF er = "CwdError" THEN [S EXCEPT !.events = Append(@, "error")]
  ELSE resume(UNPEND(warn(S, i, "TAR_ENTRY_ERROR", er)), i)

\* A filesystem call of entry i is issued / has called back.
issue(S, i, call) ==
  [S EXCEPT !.entries[i].out = @ \cup {call},
            !.entries[i].issued = @ \cup {call}]
complete(S, i, call) == [S EXCEPT !.entries[i].out = @ \ {call}]

\* The callback of a call of entry i runs, with an error unless ok.
completed(S, i, call, ok) ==
  IF ok THEN complete(S, i, call)
  ELSE [complete(S, i, call) EXCEPT !.entries[i].failed = @ \cup {call}]

\* mkdir succeeded: the cache records the directory.
cacheDir(S, dir) == [S EXCEPT !.dirCache = @ \cup {dir}]

\* CHECKFS2: start() and afterMakeParent(), up to the call they issue.
startCheck(S, i) ==
  LET e == S.entries[i]
      parent == normalizeWindowsPath(pathDirname(e.absolute))
  IN IF e.absolute # opt.cwd /\ parent # opt.cwd
     THEN issue(S, i, "mkdirParent")
     ELSE issue(S, i, "lstat")

\* Unpack[CHECKFS2], up to the call it issues.
CHECKFS2(S, i) ==
  LET S1 == PRUNECACHE(S, i)
  IN IF S1.CHECKED_CWD THEN startCheck(S1, i) ELSE issue(S1, i, "mkdirCwd")

\* #run(fn) for the handler of entry i: fn(() => this.#clear(fn))
startHandler(S, i) ==
  CHECKFS2([markRunning(S, i) EXCEPT !.entries[i].status = "running"], i)

RECURSIVE startAll(_, _)
\* #clear: next.forEach(fn => this.#run(fn))
startAll(S, next) ==
  IF Len(next) = 0 THEN S
  ELSE IF runs(S.queues, S.reservations, S.running, Head(next))
       THEN startAll(startHandler(S, Head(next)), Tail(next))
       ELSE startAll(S, Tail(next))

\* #clear(fn) without the test that fn is running
release_unguarded(S, i) ==
  LET c == clearReservation(S, i)
  IN startAll([c.S EXCEPT !.entries[i].status = "released"], c.next)

\* The release callback of entry i's reservation: #clear(fn).
release(S, i) ==
  IF i \notin S.running THEN S
  ELSE LET c == clearReservation(S, i)
       IN startAll([c.S EXCEPT !.entries[i].status = "released"], c.next)

\* CHECKFS2's done: the callback handed to MAKEFS as done / fullyDone.
done(S, i) == release(PRUNECACHE(S, i), i)

\* CHECKFS that reserves the entry's own path only
CHECKFS_ownPath(S, i) ==
  LET S1 == reserveQueued(PEND(S), <<S.entries[i].path>>, i)
  IN IF runs(S1.queues, S1.reservations, S1.running, i)
     THEN startHandler(S1, i) ELSE S1

\* Unpack[CHECKFS]
CHECKFS(S, i) ==
  LET e == S.entries[i]
      paths == IF Len(e.linkpath) > 0 THEN <<e.path, e.linkpath>>
               ELSE <<e.path>>
      S1 == reserveQueued(PEND(S), paths, i)
  IN IF runs(S1.queues, S1.reservations, S1.running, i)
     THEN startHandler(S1, i) ELSE S1

\* Unpack[UNSUPPORTED]
UNSUPPORTED(S, i) ==
  resume(warn([S EXCEPT !.entries[i].unsupported = TRUE,
                        !.entries[i].status = "unsupported"],
              i, "TAR_ENTRY_UNSUPPORTED", "unsupported entry type"), i)

\* Unpack[DOCHOWN]
DOCHOWN(e) ==
  \/ opt.forceChown
  \/ /\ opt.preserveOwner
     /\ \/ e.uid # UNDEFINED /\ e.uid # opt.processUid
        \/ e.gid # UNDEFINED /\ e.gid # opt.processGid
  \/ opt.uid # UNDEFINED /\ opt.uid # opt.processUid
  \/ opt.gid # UNDEFINED /\ opt.gid # opt.processGid

\* uint32(a, b, c): the first that is an unsigned 32-bit number, else c.
uint32(a, b, c) == IF a # UNDEFINED /\ a >= 0 THEN a
                   ELSE IF b # UNDEFINED /\ b >= 0 THEN b ELSE c

\* Unpack[UID], Unpack[GID]
UID(e) == uint32(opt.uid, e.uid, opt.processUid)
GID(e) == uint32(opt.gid, e.gid, opt.processGid)

\* Unpack[ISREUSABLE]
ISREUSABLE(e, st) ==
  /\ e.type = "File"
  /\ ~opt.unlink
  /\ st.kind = "file"
  /\ st.nlink <= 1
  /\ ~isWindows

\* history: this[MAKEFS](er, entry) has been called once more for entry i.
dispatched(S, i) == [S EXCEPT !.entries[i].made = @ + 1]

\* Unpack[MAKEFS]
MAKEFS(S0, i, er) ==
  LET e == S0.entries[i]
      S == dispatched(S0, i)
  IN IF er # "" THEN done(ONERROR(S, i, er), i)
     ELSE IF e.type \in FileTypes
       \* Unpack[FILE]: the stream is opened and the payload piped into it.
       THEN resume(issue([S EXCEPT !.entries[i].actions = 1], i, "stream"), i)
     ELSE IF e.type = "Link" THEN issue(S, i, "link")
     ELSE IF e.type = "SymbolicLink" THEN issue(S, i, "symlink")
     ELSE issue(S, i, "mkdir")

\* Unpack[FILE]: the callback done(er) of the stream's 'finish' handler;
\* closeCall names the close that an error issues with an empty callback.
fileDone(S, i, er, closeCall) ==
  IF er # "" THEN done(ONERROR(issue(S, i, closeCall), i, er), i)
  ELSE LET S1 == [S EXCEPT !.entries[i].actions = @ - 1]
       IN IF S1.entries[i].actions = 0 THEN issue(S1, i, "close") ELSE S1

\* Unpack[DIRECTORY]: the callback done() of the mkdir callback.
dirDone(S, i) ==
  LET S1 == [S EXCEPT !.entries[i].actions = @ - 1]
  IN IF S1.entries[i].actions = 0 THEN resume(UNPEND(done(S1, i)), i)
     ELSE S1

\* The stat of an entry before its lstat has returned, and after it failed
NoStat == [err |-> TRUE, kind |-> "none", nlink |-> 0, mode |-> 0,
           newer |-> FALSE]

\* The callback of lstat hands over the stat st of entry i's absolute.
lstatReturned(S, i, st) == [S EXCEPT !.entries[i].st = st]

\* Unpack[ONENTRY] for the raw entry e of the parser.
ONENTRY(S, e) ==
  LET i == Len(S.entries) + 1
      cp == CHECKPATH(opt, e)
      mode1 == IF cp.ok /\ e.type \in DirTypes /\ e.mode # UNDEFINED
                  /\ e.mode # 0
               THEN orOwnerBits(e.mode) ELSE e.mode
      ent == [type |-> e.type, path |-> cp.path, linkpath |-> cp.linkpath,
              absolute |-> cp.absolute, mode |-> mode1, mtime |-> e.mtime,
              uid |-> e.uid, gid |-> e.gid,
              status |-> IF cp.ok THEN "queued" ELSE "rejected",
              out |-> {}, issued |-> {}, failed |-> {}, actions |-> 0,
              drained |-> FALSE, st |-> NoStat, made |-> 0,
              unsupported |-> FALSE, warns |-> cp.warns]
      S1 == [S EXCEPT !.entries = Append(@, ent)]
  IN IF ~cp.ok THEN resume(S1, i)
     ELSE IF e.type \in DirTypes \cup FileTypes \cup {"Link", "SymbolicLink"}
       THEN CHECKFS(S1, i)
     ELSE UNSUPPORTED(S1, i)

(***************************************************************************)
(* Unpack: the parser's notifications and the filesystem callbacks         *)
(***************************************************************************)

Outstanding(i, call) == i \in 1..Len(entries) /\ call \in entries[i].out

\* Every entry already delivered has been drained (resumed or piped).
allDrained == \A i \in 1..Len(entries) : entries[i].drained

\* The parser delivers the next entry: this.on('entry', ...)
OnEntry ==
  /\ Len(entries) < Len(archive)
  /\ allDrained
  /\ Commit(ONENTRY(cur, archive[Len(entries) + 1]))

\* The parser is done: opt.ondone
OnDone ==
  /\ Len(entries) = Len(archive)
  /\ allDrained
  /\ ~ENDED
  /\ Commit(MAYBECLOSE([cur EXCEPT !.ENDED = TRUE]))

\* checkCwd: the callback of MKDIR(cwd)
MkdirCwdDone ==
  \E i \in 1..Len(entries), ok \in BOOLEAN :
    /\ Outstanding(i, "mkdirCwd")
    /\ LET S1 == completed(cur, i, "mkdirCwd", ok)
       IN Commit(IF ok
                 THEN startCheck([cacheDir(S1, opt.cwd)
                                    EXCEPT !.CHECKED_CWD = TRUE], i)
                 ELSE done(ONERROR(S1, i, "CwdError"), i))

\* start: the callback of MKDIR(parent)
MkdirParentDone ==
  \E i \in 1..Len(entries), ok \in BOOLEAN :
    /\ Outstanding(i, "mkdirParent")
    /\ LET S1 == completed(cur, i, "mkdirParent", ok)
           parent == normalizeWindowsPath(pathDirname(entries[i].absolute))
       IN Commit(IF ok THEN issue(cacheDir(S1, parent), i, "lstat")
                 ELSE done(ONERROR(S1, i, "mkdirParent"), i))

\* What lstat can report: an error, or the kind, link count and mode of
\* what is there, and whether it is newer than the entry.
LstatResults ==
  {NoStat,
   [NoStat EXCEPT !.err = FALSE, !.kind = "file", !.nlink = 1, !.mode = 420],
   [NoStat EXCEPT !.err = FALSE, !.kind = "file", !.nlink = 2, !.mode = 420,
                  !.newer = TRUE],
   [NoStat EXCEPT !.err = FALSE, !.kind = "dir", !.nlink = 2, !.mode = 493],
   [NoStat EXCEPT !.err = FALSE, !.kind = "dir", !.nlink = 2, !.mode = 448],
   [NoStat EXCEPT !.err = FALSE, !.kind = "symlink", !.nlink = 1,
                  !.mode = 511]}

\* afterMakeParent: the callback of fs.lstat
afterLstat(S, i, st) ==
  LET e == S.entries[i]
      needChmod == ~opt.noChmod /\ e.mode # UNDEFINED /\ e.mode # 0
                   /\ st.mode # e.mode
  IN IF ~st.err /\ (opt.keep \/ (opt.newer /\ e.mtime /\ st.newer))
       THEN done(SKIP(S, i), i)
     ELSE IF st.err \/ ISREUSABLE(e, st) THEN MAKEFS(S, i, "")
     ELSE IF st.kind = "dir" /\ e.type = "Directory"
       THEN IF needChmod THEN issue(S, i, "chmod") ELSE MAKEFS(S, i, "")
     ELSE IF st.kind = "dir" /\ e.absolute # opt.cwd
       THEN issue(S, i, "rmdir")
     ELSE IF e.absolute = opt.cwd THEN MAKEFS(S, i, "")
     ELSE issue(S, i, "unlink")

LstatDone ==
  \E i \in 1..Len(entries), st \in LstatResults :
    /\ Outstanding(i, "lstat")
    /\ Commit(afterLstat(lstatReturned(completed(cur, i, "lstat", ~st.err),
                                        i, st), i, st))

\* afterChmod, and the callbacks of fs.rmdir and of unlinkFile
ClobberDone ==
  \E i \in 1..Len(entries), call \in {"chmod", "rmdir", "unlink"},
     ok \in BOOLEAN :
    /\ Outstanding(i, call)
    /\ Commit(MAKEFS(completed(cur, i, call, ok), i,
                     IF ok THEN "" ELSE call))

\* FILE: stream.on('error'), with or without an open descriptor
StreamError ==
  \E i \in 1..Len(entries), hasFd \in BOOLEAN :
    /\ Outstanding(i, "stream")
    /\ LET S1 == completed(cur, i, "stream", FALSE)
           S2 == IF hasFd THEN issue(S1, i, "closeOnStreamError") ELSE S1
       IN Commit(done(ONERROR(S2, i, "stream"), i))

\* FILE: stream.on('finish')
StreamFinish ==
  \E i \in 1..Len(entries) :
    /\ Outstanding(i, "stream")
    /\ LET e == entries[i]
           S1 == complete(cur, i, "stream")
           S2 == IF e.mtime /\ ~opt.noMtime
                 THEN issue([S1 EXCEPT !.entries[i].actions = @ + 1],
                            i, "futimes")
                 ELSE S1
           S3 == IF DOCHOWN(e)
                 THEN LET S2a == [S2 EXCEPT !.entries[i].actions = @ + 1]
                      IN IF UID(e) # UNDEFINED /\ GID(e) # UNDEFINED
                         THEN issue(S2a, i, "fchown") ELSE S2a
                 ELSE S2
       IN Commit(fileDone(S3, i, "", ""))

\* FILE: the callbacks of fs.futimes and of the fs.utimes tried after it
FileTimesDone ==
  \E i \in 1..Len(entries), call \in {"futimes", "utimes"}, ok \in BOOLEAN :
    /\ Outstanding(i, call)
    /\ LET S1 == completed(cur, i, call, ok)
       IN Commit(IF ok THEN fileDone(S1, i, "", "")
                 ELSE IF call = "futimes" THEN issue(S1, i, "utimes")
                 ELSE fileDone(S1, i, "futimes", "closeOnTimesError"))

\* FILE: the callbacks of fs.fchown and of the fs.chown tried after it
FileChownDone ==
  \E i \in 1..Len(entries), call \in {"fchown", "chown"}, ok \in BOOLEAN :
    /\ Outstanding(i, call)
    /\ LET S1 == completed(cur, i, call, ok)
       IN Commit(IF ok THEN fileDone(S1, i, "", "")
                 ELSE IF call = "fchown" THEN issue(S1, i, "chown")
                 ELSE fileDone(S1, i, "fchown", "closeOnChownError"))

\* FILE: the callback of the fs.close that follows the last action
CloseDone ==
  \E i \in 1..Len(entries), ok \in BOOLEAN :
    /\ Outstanding(i, "close")
    /\ LET S1 == completed(cur, i, "close", ok)
       IN Commit(done(IF ok THEN UNPEND(S1) ELSE ONERROR(S1, i, "close"), i))

\* The closes issued on an error, fs.close(stream.fd, () => {})
ErrorCloses == {"closeOnStreamError", "closeOnTimesError", "closeOnChownError"}

\* FILE: fs.close(stream.fd, () => {}) has completed
ErrorCloseDone ==
  \E i \in 1..Len(entries), call \in ErrorCloses :
    /\ Outstanding(i, call)
    /\ Commit(complete(cur, i, call))

\* DIRECTORY: the callback of MKDIR(entry.absolute)
DirMkdirDone ==
  \E i \in 1..Len(entries), ok \in BOOLEAN :
    /\ Outstanding(i, "mkdir")
    /\ LET e == entries[i]
           S1 == completed(cur, i, "mkdir", ok)
           S2 == [cacheDir(S1, e.absolute) EXCEPT !.entries[i].actions = 1]
           S3 == IF e.mtime /\ ~opt.noMtime
                 THEN issue([S2 EXCEPT !.entries[i].actions = @ + 1],
                            i, "dirUtimes")
                 ELSE S2
           S4 == IF DOCHOWN(e)
                 THEN issue([S3 EXCEPT !.entries[i].actions = @ + 1],
                            i, "dirChown")
                 ELSE S3
       IN Commit(IF ok THEN dirDone(S4, i)
                 ELSE done(ONERROR(S1, i, "mkdir"), i))

\* DIRECTORY: the callbacks of fs.utimes and fs.chown
DirActionDone ==
  \E i \in 1..Len(entries), call \in {"dirUtimes", "dirChown"},
     ok \in BOOLEAN :
    /\ Outstanding(i, call)
    /\ Commit(dirDone(completed(cur, i, call, ok), i))

\* LINK: the callback of fs.link / fs.symlink
LinkDone ==
  \E i \in 1..Len(entries), call \in {"link", "symlink"}, ok \in BOOLEAN :
    /\ Outstanding(i, call)
    /\ LET S1 == completed(cur, i, call, ok)
       IN Commit(done(IF ok THEN resume(UNPEND(S1), i)
                      ELSE ONERROR(S1, i, call), i))

Next ==
  \/ OnEntry
  \/ OnDone
  \/ MkdirCwdDone
  \/ MkdirParentDone
  \/ LstatDone
  \/ ClobberDone
  \/ StreamError
  \/ StreamFinish
  \/ FileTimesDone
  \/ FileChownDone
  \/ CloseDone
  \/ ErrorCloseDone
  \/ DirMkdirDone
  \/ DirActionDone
  \/ LinkDone

(***************************************************************************)
(* Extractions                                                             *)
(***************************************************************************)

\* new Unpack({cwd: '/x'}) run by root on a POSIX host
DefaultOptions ==
  [cwd |-> <<SLASH, "x">>, strip |-> 0, maxDepthFinite |-> TRUE,
   maxDepth |-> DEFAULT_MAX_DEPTH, preservePaths |-> FALSE, win32 |-> FALSE,
   keep |-> FALSE, newer |-> FALSE, unlink |-> FALSE, noMtime |-> FALSE,
   noChmod |-> FALSE, forceChown |-> FALSE, preserveOwner |-> TRUE,
   uid |-> UNDEFINED, gid |-> UNDEFINED, processUid |-> 0, processGid |-> 0,
   sync |-> FALSE]

\* A header of the archive
Header(type, path, linkpath) ==
  [type |-> type, path |-> path, linkpath |-> linkpath, mode |-> 420,
   mtime |-> FALSE, uid |-> 0, gid |-> 0]

\* The number of entries of an archive
MaxEntries == 2

Headers ==
  {[Header("File", <<"a">>, <<>>) EXCEPT !.mtime = TRUE, !.uid = 1000],
   Header("File", <<SLASH, "x", SLASH, "a">>, <<>>),
   Header("Link", <<"b">>, <<"a">>),
   [Header("Directory", <<"d">>, <<>>) EXCEPT !.mtime = TRUE, !.mode = 45],
   Header("File", <<"d", SLASH, "a">>, <<>>),
   Header("SymbolicLink", <<"s">>, <<"a">>),
   Header("CharacterDevice", <<"c">>, <<>>)}

Archives == UNION {[1..n -> Headers] : n \in 1..MaxEntries}

InitUnpack ==
  /\ platform = "linux"
  \* the archives below hold no code point the two forms treat differently
  /\ normalization = "NFKC"
  /\ queues = << >>
  /\ reservations = << >>
  /\ running = {}
  /\ startOrder = <<>>
  /\ released = {}
  /\ entries = <<>>
  /\ PENDING = 0
  /\ ENDED = FALSE
  /\ CHECKED_CWD = FALSE
  /\ dirCache = {}
  /\ events = <<>>

Init ==
  /\ InitUnpack
  /\ opt \in {DefaultOptions,
              [DefaultOptions EXCEPT !.preservePaths = TRUE],
              [DefaultOptions EXCEPT !.keep = TRUE]}
  /\ archive \in Archives

Spec == Init /\ [][Next]_vars

\* The largest strip option tried
MaxStrip == 2

\* Headers whose paths exercise CHECKPATH, one entry per archive
PathHeaders ==
  {[Header("File", <<"a">>, <<>>) EXCEPT !.mtime = TRUE, !.uid = 1000],
   Header("File", <<SLASH, "a">>, <<>>),
   Header("File", <<SLASH, SLASH, "a">>, <<>>),
   Header("File", <<DOT, DOT, SLASH, "a">>, <<>>),
   Header("File", <<"a", SLASH, DOT, DOT, SLASH, "b">>, <<>>),
   Header("File", <<"a", SLASH, "b">>, <<>>),
   Header("File", <<"a", SLASH, "b", SLASH, "c">>, <<>>),
   Header("File", <<"a", SLASH, SLASH, "x">>, <<>>),
   Header("File", <<"a", SLASH>>, <<>>),
   [Header("Directory", <<"a", SLASH>>, <<>>) EXCEPT !.mtime = TRUE],
   Header("Directory", <<DOT>>, <<>>),
   Header("Directory", <<"a">>, <<>>),
   Header("File", <<SLASH, "a", SLASH, "b">>, <<>>),
   Header("Link", <<"a", SLASH, "l">>, <<"a", SLASH, "b">>),
   Header("Link", <<"l">>, <<DOT, DOT, SLASH, "b">>)}

InitPaths ==
  /\ InitUnpack
  /\ opt \in {[DefaultOptions EXCEPT !.cwd = c, !.strip = n, !.win32 = w,
                                     !.preservePaths = pp] :
                c \in {<<SLASH, "x">>, <<SLASH, "x", COLON>>},
                n \in 0..MaxStrip, w \in BOOLEAN, pp \in BOOLEAN}
  /\ archive \in {<<h>> : h \in PathHeaders}

SpecPaths == InitPaths /\ [][Next]_vars

(***************************************************************************)
(* UnpackSync: every filesystem call returns or throws before the next     *)
(* statement; r holds what the calls of one handler return                 *)
(***************************************************************************)

\* A synchronous call of entry i has been made.
called(S, i, call) == [S EXCEPT !.entries[i].issued = @ \cup {call}]

\* The FILE instance k of entry i: its descriptor and its 'data' and 'end'
\* handlers; the closed descriptor of instance k.
fileOf(k) == IF k = 1 THEN "file1" ELSE "file2"
closedOf(k) == IF k = 1 THEN "closed1" ELSE "closed2"

\* UnpackSync[FILE], up to the registration of the 'data' and 'end' handlers
FILESync(S, i, k, openOk) ==
  LET S1 == called(S, i, "stream")
  IN IF openOk
     THEN resume([S1 EXCEPT !.entries[i].out = @ \cup {fileOf(k)}], i)
     \* oner(er): closeSync(undefined) throws as well; done() does nothing
     ELSE ONERROR(S1, i, "open")

\* UnpackSync[DIRECTORY]
DIRECTORYSync(S, i, mkdirOk) ==
  LET e == S.entries[i]
      S1 == called(S, i, "mkdir")
      S2 == IF e.mtime /\ ~opt.noMtime THEN called(S1, i, "dirUtimes") ELSE S1
      S3 == IF DOCHOWN(e) THEN called(S2, i, "dirChown") ELSE S2
  IN IF ~mkdirOk THEN ONERROR(S1, i, "mkdir")
     ELSE resume(cacheDir(S3, e.absolute), i)

\* UnpackSync[LINK]
LINKSync(S, i, link, linkOk) ==
  LET S1 == called(S, i, link)
  IN IF linkOk THEN resume(S1, i) ELSE ONERROR(S1, i, link)

\* UnpackSync[MAKEFS]: Unpack[MAKEFS] with done = () => {}
MAKEFSSync(S0, i, er, k, makeOk) ==
  LET e == S0.entries[i]
      S == dispatched(S0, i)
  IN IF er # "" THEN ONERROR(S, i, er)
     ELSE IF e.type \in FileTypes THEN FILESync(S, i, k, makeOk)
     ELSE IF e.type = "Link" THEN LINKSync(S, i, "link", makeOk)
     ELSE IF e.type = "SymbolicLink" THEN LINKSync(S, i, "symlink", makeOk)
     ELSE DIRECTORYSync(S, i, makeOk)

\* UnpackSync[CHECKFS] from the lstat on
afterLstatSync(S0, i, r) ==
  LET e == S0.entries[i]
      st == r.st
      \* callSync: the stat, or the error lstatSync threw
      S == IF st.err
           THEN [called(S0, i, "lstat") EXCEPT !.entries[i].failed =
                                                  @ \cup {"lstat"}]
           ELSE lstatReturned(called(S0, i, "lstat"), i, st)
      needChmod == ~opt.noChmod /\ e.mode # UNDEFINED /\ e.mode # 0
                   /\ st.mode # e.mode
      \* the statements after the rmdir branch, which does not return
      removeAndMake(T, k) ==
        IF e.absolute = opt.cwd THEN MAKEFSSync(T, i, "", k, r.makeB)
        ELSE MAKEFSSync(called(T, i, "unlink"), i,
                        IF r.okB THEN "" ELSE "unlink", k, r.makeB)
  IN IF ~st.err /\ (opt.keep \/ (opt.newer /\ e.mtime /\ st.newer))
       THEN SKIP(S, i)
     ELSE IF st.err \/ ISREUSABLE(e, st) THEN MAKEFSSync(S, i, "", 1, r.makeA)
     ELSE IF st.kind = "dir" /\ e.type = "Directory"
       THEN IF needChmod
            THEN MAKEFSSync(called(S, i, "chmod"), i,
                            IF r.okA THEN "" ELSE "chmod", 1, r.makeA)
            ELSE MAKEFSSync(S, i, "", 1, r.makeA)
     ELSE IF st.kind = "dir"
       THEN removeAndMake(MAKEFSSync(called(S, i, "rmdir"), i,
                                     IF r.okA THEN "" ELSE "rmdir", 1,
                                     r.makeA), 2)
     ELSE removeAndMake(S, 1)

\* UnpackSync[CHECKFS]
CHECKFSSync(S, i, r) ==
  LET e == S.entries[i]
      parent == normalizeWindowsPath(pathDirname(e.absolute))
      S1 == PRUNECACHE(S, i)
      S2 == IF S1.CHECKED_CWD THEN S1
            ELSE [cacheDir(called(S1, i, "mkdirCwd"), opt.cwd)
                    EXCEPT !.CHECKED_CWD = TRUE]
      needParent == e.absolute # opt.cwd /\ parent # opt.cwd
      S3 == IF needParent THEN cacheDir(called(S2, i, "mkdirParent"), parent)
            ELSE S2
  IN IF ~S1.CHECKED_CWD /\ ~r.cwdOk
       THEN ONERROR(called(S1, i, "mkdirCwd"), i, "CwdError")
     ELSE IF needParent /\ ~r.parentOk
       THEN ONERROR(called(S2, i, "mkdirParent"), i, "mkdirParent")
     ELSE afterLstatSync(S3, i, r)

\* Unpack[ONENTRY] with this[CHECKFS] being UnpackSync[CHECKFS]
ONENTRYSync(S, e, r) ==
  LET i == Len(S.entries) + 1
      cp == CHECKPATH(opt, e)
      mode1 == IF cp.ok /\ e.type \in DirTypes /\ e.mode # UNDEFINED
                  /\ e.mode # 0
               THEN orOwnerBits(e.mode) ELSE e.mode
      ent == [type |-> e.type, path |-> cp.path, linkpath |-> cp.linkpath,
              absolute |-> cp.absolute, mode |-> mode1, mtime |-> e.mtime,
              uid |-> e.uid, gid |-> e.gid,
              status |-> IF cp.ok THEN "checked" ELSE "rejected",
              out |-> {}, issued |-> {}, failed |-> {}, actions |-> 0,
              drained |-> FALSE, st |-> NoStat, made |-> 0,
              unsupported |-> FALSE, warns |-> cp.warns]
      S1 == [S EXCEPT !.entries = Append(@, ent)]
  IN IF ~cp.ok THEN resume(S1, i)
     ELSE IF e.type \in DirTypes \cup FileTypes \cup {"Link", "SymbolicLink"}
       THEN CHECKFSSync(S1, i, r)
     ELSE UNSUPPORTED(S1, i)

\* What the synchronous calls of one CHECKFS return: okA is the chmod, the
\* rmdir or the only unlink, okB the unlink after the rmdir branch, makeA and
\* makeB the open, mkdir or link of the first and second MAKEFS.
SyncResults ==
  [cwdOk : BOOLEAN, parentOk : BOOLEAN, st : LstatResults, okA : BOOLEAN,
   okB : BOOLEAN, makeA : BOOLEAN, makeB : BOOLEAN]

\* The parser hands over an entry only when the one before has ended.
allEnded == \A i \in 1..Len(entries) : entries[i].out = {}

\* The parser delivers the next entry to UnpackSync.
SyncOnEntry ==
  /\ Len(entries) < Len(archive)
  /\ allDrained /\ allEnded
  /\ \E r \in SyncResults :
       Commit(ONENTRYSync(cur, archive[Len(entries) + 1], r))

\* UnpackSync[FILE] oner(er): closeSync throws on a descriptor that is
\* already closed; done() does nothing.
oner(S, i, k, er, closeOk) ==
  LET wasClosed == closedOf(k) \in S.entries[i].issued
      closeError == wasClosed \/ ~closeOk
      S1 == called(S, i, closedOf(k))
  IN IF er # "" THEN ONERROR(S1, i, er)
     ELSE IF closeError THEN ONERROR(S1, i, "close")
     ELSE S1

\* The chunks of one entry whose write throws
MaxWriteErrors == 2

\* The write errors entry i has reported so far
RECURSIVE writeErrors(_)
writeErrors(w) ==
  IF w = <<>> THEN 0
  ELSE (IF Head(w) = <<"TAR_ENTRY_ERROR", "write">> THEN 1 ELSE 0)
       + writeErrors(Tail(w))

\* UnpackSync[FILE] tx.on('data'): writeSync throws. The handler stays
\* registered until 'end', so a chunk that follows a failed one is written
\* to the closed descriptor, throws again and runs oner(er) again.
SyncWriteError ==
  \E i \in 1..Len(entries), k \in 1..2 :
    /\ fileOf(k) \in entries[i].out
    /\ writeErrors(entries[i].warns) < MaxWriteErrors
    /\ Commit(oner(cur, i, k, "write", TRUE))

\* UnpackSync[FILE] tx.on('end')
SyncEnd ==
  \E i \in 1..Len(entries), k \in 1..2, futimesOk, utimesOk, fchownOk,
     chownOk, closeOk \in BOOLEAN :
    /\ fileOf(k) \in entries[i].out
    /\ LET e == entries[i]
           times == e.mtime /\ ~opt.noMtime
           owner == DOCHOWN(e)
           S1 == [cur EXCEPT !.entries[i].out = @ \ {fileOf(k)}]
           S2 == IF times
                 THEN IF futimesOk THEN called(S1, i, "futimes")
                      ELSE called(called(S1, i, "futimes"), i, "utimes")
                 ELSE S1
           S3 == IF owner
                 THEN IF fchownOk THEN called(S2, i, "fchown")
                      ELSE called(called(S2, i, "fchown"), i, "chown")
                 ELSE S2
           er == IF times /\ ~futimesOk /\ ~utimesOk THEN "futimes"
                 ELSE IF owner /\ ~fchownOk /\ ~chownOk THEN "fchown"
                 ELSE ""
       IN Commit(oner(S3, i, k, er, closeOk))

\* The parser is done: opt.ondone, after the last entry has ended
SyncOnDone ==
  /\ Len(entries) = Len(archive)
  /\ allDrained /\ allEnded
  /\ ~ENDED
  /\ Commit(MAYBECLOSE([cur EXCEPT !.ENDED = TRUE]))

NextSync ==
  \/ SyncOnEntry
  \/ SyncWriteError
  \/ SyncEnd
  \/ SyncOnDone

\* Headers for UnpackSync, one of which resolves to cwd
SyncHeaders ==
  {[Header("File", <<"a">>, <<>>) EXCEPT !.mtime = TRUE],
   Header("Link", <<"b">>, <<"a">>),
   Header("GNUDumpDir", <<DOT, SLASH>>, <<>>)}

InitSync ==
  /\ InitUnpack
  /\ opt \in {[DefaultOptions EXCEPT !.sync = TRUE],
              [DefaultOptions EXCEPT !.sync = TRUE, !.keep = TRUE]}
  /\ archive \in UNION {[1..n -> SyncHeaders] : n \in 1..MaxEntries}

SpecSync == InitSync /\ [][NextSync]_vars

\* One entry extracted by either class: new Unpack(opt) or new UnpackSync(opt)
\* The entries extracted once by each class: every kind CHECKFS accepts.
ProfileHeaders ==
  SyncHeaders \cup
  {[Header("File", <<"a">>, <<>>) EXCEPT !.mtime = TRUE, !.uid = 1000],
   [Header("Directory", <<"d">>, <<>>) EXCEPT !.mtime = TRUE, !.mode = 45],
   Header("File", <<"d", SLASH, "a">>, <<>>),
   Header("Directory", <<DOT>>, <<>>),
   Header("OldFile", <<"a">>, <<>>),
   Header("ContiguousFile", <<"a">>, <<>>),
   Header("GNUDumpDir", <<"d">>, <<>>),
   Header("SymbolicLink", <<"s">>, <<"a">>)}

InitProfiles ==
  /\ InitUnpack
  /\ opt \in {[DefaultOptions EXCEPT !.sync = sy, !.keep = k, !.unlink = u] :
                sy \in BOOLEAN, k \in BOOLEAN, u \in BOOLEAN}
  /\ archive \in {<<h>> : h \in ProfileHeaders}

NextProfiles == (opt.sync /\ NextSync) \/ (~opt.sync /\ Next)

SpecProfiles == InitProfiles /\ [][NextProfiles]_vars

(***************************************************************************)
(* The canonicalizer on its own: a path of the archive is put through the  *)
(* transforms in both orders.                                              *)
(***************************************************************************)

\* The length of the paths canonicalized
MaxPathLen == 3

PathChars == {"a", SLASH, BACKSLASH, FWBACKSLASH, EACUTE}

CanonPaths == UNION {[1..n -> PathChars] : n \in 1..MaxPathLen}

InitCanon ==
  /\ platform \in {"linux", "win32"}
  /\ normalization \in {"NFKC", "NFD"}
  /\ queues = << >>
  /\ reservations = << >>
  /\ running = {}
  /\ startOrder = <<>>
  /\ released = {}
  /\ entries = <<>>
  /\ PENDING = 0
  /\ ENDED = FALSE
  /\ CHECKED_CWD = FALSE
  /\ dirCache = {}
  /\ events = <<>>
  /\ opt = DefaultOptions
  /\ archive \in {<<Header("File", p, <<>>)>> : p \in CanonPaths}

\* The two compositions the test compares, for the path of the next header
Canonicalize ==
  /\ Len(entries) < Len(archive)
  /\ LET p == archive[Len(entries) + 1].path
         a == normalizeUnicode(stripTrailingSlashes(normalizeWindowsPath(p)))
         b == stripTrailingSlashes(normalizeWindowsPath(normalizeUnicode(p)))
     IN entries' = Append(entries, [path |-> p, a |-> a, b |-> b])
  /\ UNCHANGED <<platform, normalization, queues, reservations, running, startOrder,
                 released, opt, archive, PENDING, ENDED, CHECKED_CWD,
                 dirCache, events>>

SpecCanon == InitCanon /\ [][Canonicalize]_vars

(***************************************************************************)
(* Claims about the scheduler                                              *)
(***************************************************************************)

ownPaths(fn) == Range(reservations[fn].paths)
ownDirs(fn) == Range(reservations[fn].dirs)

\* The position of fn in the order of starts, 0 when fn was never started.
startPos(fn) ==
  IF fn \in started
  THEN CHOOSE i \in 1..Len(startOrder) : startOrder[i] = fn
  ELSE 0

\* C1: two handlers whose reserved path lists share a canonical path are
\* never both between their start and their release.
C1_ExclusivePaths ==
  \A f \in running : \A g \in running :
    f # g => ownPaths(f) \cap ownPaths(g) = {}

\* C1 witness: a handler runs while another handler that reserved the same
\* canonical path has been queued behind it and waits.
C1_Witness ==
  \E f \in running : \E g \in reserved \ (started \cup {f}) :
    ownPaths(f) \cap ownPaths(g) # {}

\* C2: a running handler that has directory d among the ancestors of its
\* paths never runs together with a handler that reserved d itself.
C2_AncestorSafety ==
  \A f \in running : \A g \in running :
    f # g => ownDirs(f) \cap ownPaths(g) = {}

\* C2 witness: a handler on a directory runs after the handler below that
\* directory, queued before it, has released, and while another handler below
\* the directory, queued after it, waits.
C2_Witness ==
  \E f \in released : \E g \in running : \E h \in reserved \ started :
    /\ ownDirs(f) \cap ownPaths(g) # {}
    /\ ownDirs(h) \cap ownPaths(g) # {}

\* C3: handlers that reserved the same canonical path start in the order of
\* their reserve() calls (handlers are numbered in that order).
C3_Fifo ==
  \A f \in reserved : \A g \in reserved :
    (f < g /\ ownPaths(f) \cap ownPaths(g) # {} /\ g \in started)
      => (f \in started /\ startPos(f) < startPos(g))

\* C3 witness: three handlers of one path, the third started after the
\* second, which started after the first; the third reserved directories
\* as well.
C3_Witness ==
  /\ platform = "linux"
  /\ \E f, g, h \in started :
       /\ f < g /\ g < h
       /\ ownPaths(f) \cap ownPaths(g) \cap ownPaths(h) # {}
       /\ ownDirs(h) # {}

\* C4: no handler is started twice; a released handler is in no queue, is not
\* eligible and is not running.
InQueues(fn) ==
  \E p \in DOMAIN queues : \E i \in 1..Len(queues[p]) :
    \/ queues[p][i] = FnSlot(fn)
    \/ queues[p][i].isSet /\ Includes(queues[p][i].members, fn)

C4_StartedOnce ==
  /\ \A i \in 1..Len(startOrder) : \A j \in 1..Len(startOrder) :
       startOrder[i] = startOrder[j] => i = j
  /\ \A fn \in released :
       /\ fn \notin running
       /\ ~InQueues(fn)
       /\ ~check(queues, reservations, fn)

\* C4 witness: a handler whose list repeats a path has released while another
\* handler of that path was queued behind it, and that one now runs.
C4_Witness ==
  \E f \in released : \E g \in running :
    /\ Len(reservations[f].paths) = 2
    /\ reservations[f].paths[1] = reservations[f].paths[2]
    /\ ownPaths(f) \cap ownPaths(g) # {}

\* C5: every handler passed to reserve() is eventually started when every
\* started handler releases.  In a state where no handler is running nothing
\* is left to release, and #run is only reached from reserve(fn) (for fn
\* itself) and from a release: a reserved handler not started by then never
\* starts.
C5_EveryHandlerStarts == running = {} => reserved \subseteq started

(***************************************************************************)
(* Claims about the extraction                                             *)
(***************************************************************************)

\* Entry i passed CHECKPATH and was handed to CHECKFS: by Unpack, whose
\* handler is then queued, running or released, or by UnpackSync, which
\* has no reservation and leaves the entry as CHECKPATH left it.
accepted(i) ==
  entries[i].status \in {"checked", "queued", "running", "released"}

\* The calls of entry i whose callbacks the handler waits for.
Awaited(i) == entries[i].out \ ErrorCloses

\* C6: Two entries with the same absolute path never have filesystem calls
\* outstanding together: once the later entry has issued a call, the
\* earlier entry's handler has released and none of its calls is outstanding.
C6_SameAbsoluteSerialized ==
  \A i, j \in 1..Len(entries) :
    (/\ i < j
     /\ accepted(i) /\ accepted(j)
     /\ entries[i].absolute = entries[j].absolute
     /\ entries[j].issued # {})
    => entries[i].status = "released" /\ Awaited(i) = {}

\* The Link entry j names, as its linkpath, the path of the File entry i
\* that precedes it.
linksTo(j, i) ==
  /\ i < j
  /\ entries[i].type = "File" /\ accepted(i)
  /\ entries[j].type = "Link" /\ accepted(j)
  /\ reserveKey(entries[j].linkpath) = reserveKey(entries[i].path)

\* C7: A Link entry whose linkpath is the path of an earlier File entry is
\* not started, and issues no filesystem call, before the File entry's
\* handler has released its reservation.
C7_LinkWaitsForTarget ==
  \A i, j \in 1..Len(entries) :
    (linksTo(j, i) /\ (j \in started \/ entries[j].issued # {}))
    => i \in released

\* A Link entry has made its link call after the File it names released.
C7_Witness ==
  \E i, j \in 1..Len(entries) :
    /\ linksTo(j, i)
    /\ "link" \in entries[j].issued
    /\ i \in released

within(abs, dir) == abs = dir \/ StartsWith(abs, Append(dir, SLASH))

\* C8: With preservePaths off, an entry that has made a filesystem call on
\* its own path has an absolute path that is cwd or lies under cwd + '/'.
C8_WithinCwd ==
  \A i \in 1..Len(entries) :
    (~opt.preservePaths /\ entries[i].issued \ {"mkdirCwd"} # {})
    => within(entries[i].absolute, opt.cwd)

lifecycle(ev) == SelectSeq(ev, LAMBDA x : x # "error")

\* C9: Whenever lifecycle notifications are emitted, the parser's done
\* signal has been received and PENDING is 0; they are prefinish, finish and
\* end in that order, and none had been emitted before.
C9_LifecycleOnce ==
  [][lifecycle(events') # lifecycle(events)
     => /\ ENDED' /\ PENDING' = 0
        /\ lifecycle(events) = <<>>
        /\ lifecycle(events') = <<"prefinish", "finish", "end">>]_vars

\* The notifications were emitted after two entries, one of which failed.
C9_Witness ==
  /\ lifecycle(events) = <<"prefinish", "finish", "end">>
  /\ Len(entries) = 2
  /\ \E i \in 1..2 : \E k \in 1..Len(entries[i].warns) :
       entries[i].warns[k][1] = "TAR_ENTRY_ERROR"
  /\ \E i \in 1..2 : entries[i].warns = <<>> /\ entries[i].status = "released"

\* C10: Once end has been emitted no accepted entry holds a reservation or
\* has a filesystem call outstanding whose callback its handler waits for.
C10_NoOperationRemains ==
  "end" \in Range(events)
  => \A i \in 1..Len(entries) :
       accepted(i) => entries[i].status = "released" /\ Awaited(i) = {}

\* Nothing can happen any more: the parser is done, no CwdError was raised
\* and every filesystem call that was issued has completed.
quiescent ==
  /\ ENDED
  /\ "error" \notin Range(events)
  /\ \A i \in 1..Len(entries) : entries[i].out = {}

\* C11: Once the parser is done and every issued call has completed without
\* a CwdError, end has been emitted (PENDING has reached 0).
C11_QuiescentEnded == quiescent => "end" \in Range(events)

\* C12: PENDING is incremented once and decremented once for every entry
\* handed to the reconciler, so it is never negative.
C12_PendingNonNegative == PENDING >= 0

\* Entry i carries a warning with this code.
warned(i, code) ==
  \E k \in 1..Len(entries[i].warns) : entries[i].warns[k][1] = code

\* The calls whose failure is final: the fallbacks utimes and chown rather
\* than futimes and fchown; lstat's failure means there is nothing in the
\* way, mkdir(cwd)'s is the CwdError.
FinalCalls ==
  {"mkdirParent", "chmod", "rmdir", "unlink", "stream", "utimes", "chown",
   "close", "mkdir", "dirUtimes", "dirChown", "link", "symlink"}

\* C13: After a call of an entry has failed for good, the entry carries a
\* TAR_ENTRY_ERROR warning, is drained, and has released its reservation.
C13_FailureReported ==
  \A i \in 1..Len(entries) :
    entries[i].failed \cap FinalCalls # {}
    => /\ warned(i, "TAR_ENTRY_ERROR")
       /\ entries[i].drained
       /\ entries[i].status = "released"

\* The calls that look at, remove or create something at the entry's path.
PathCalls ==
  {"lstat", "chmod", "rmdir", "unlink", "stream", "mkdir", "link", "symlink"}

\* C14: When mkdir of cwd fails for an entry, an error event is emitted and
\* no TAR_ENTRY_ERROR warning; that entry makes no other call, and no later
\* entry makes a call at its path.
C14_CwdErrorTerminates ==
  \A i \in 1..Len(entries) :
    "mkdirCwd" \in entries[i].failed
    => /\ "error" \in Range(events)
       /\ ~warned(i, "TAR_ENTRY_ERROR")
       /\ entries[i].issued = {"mkdirCwd"}
       /\ \A j \in 1..Len(entries) :
            j > i => entries[j].issued \cap PathCalls = {}

\* mkdir of cwd failed for the first of two entries, and its reservation
\* has been released.
C14_Witness ==
  /\ Len(archive) = 2
  /\ Len(entries) >= 1
  /\ "mkdirCwd" \in entries[1].failed
  /\ entries[1].status = "released"
  /\ events = <<"error">>

\* C15: No entry whose absolute path is cwd issues a removal of it or
\* creates a file or a link there.
C15_CwdNeverReplaced ==
  \A i \in 1..Len(entries) :
    (entries[i].status # "rejected" /\ entries[i].absolute = opt.cwd)
    => entries[i].issued \cap {"rmdir", "unlink", "stream", "link", "symlink"}
         = {}

\* Entry i was skipped after its lstat: it is drained without a warning and
\* nothing was done at its path.
skippedAfterLstat(i) ==
  /\ "lstat" \in entries[i].issued
  /\ entries[i].issued \cap (PathCalls \ {"lstat"}) = {}
  /\ entries[i].warns = <<>>
  /\ entries[i].drained

\* C16: Both profiles emit the same lifecycle events: after an archive of
\* one entry, skipped under keep because something exists at its path, the
\* events are prefinish, finish, end, whichever class extracts it.
C16_SameLifecycle ==
  (quiescent /\ opt.keep /\ Len(entries) = 1 /\ skippedAfterLstat(1))
  => lifecycle(events) = <<"prefinish", "finish", "end">>

\* The '/'-separated segments of the path of the i-th header
segments(i) == split(normalizeWindowsPath(archive[i].path), SLASH)

\* C17: An entry whose path has no more segments than strip is skipped: it
\* is drained, takes no reservation, leaves PENDING alone and makes no
\* filesystem call.
C17_StripSkips ==
  \A i \in 1..Len(entries) :
    opt.strip >= Len(segments(i))
    => /\ entries[i].status = "rejected"
       /\ entries[i].drained
       /\ entries[i].issued = {}
       /\ i \notin reserved
       /\ PENDING = 0

\* The path C18 expects of the i-th entry: the header's segments without
\* the first strip of them, joined, and any root then removed.  CHECKPATH
\* computes entries[i].path; this is what that path is compared with.
expectedPath(i) ==
  stripAbsolutePath(joinStr(Slice(segments(i), opt.strip), SLASH))[2]

\* C18: With strip > 0 and preservePaths off, an accepted entry's path is
\* the header's path without its first strip segments and without a root,
\* and its absolute is that path resolved against cwd.
C18_StripDropsSegments ==
  \A i \in 1..Len(entries) :
    (/\ opt.strip > 0 /\ ~opt.preservePaths /\ ~opt.win32
     /\ opt.strip < Len(segments(i))
     /\ entries[i].status # "rejected")
    => /\ entries[i].path = expectedPath(i)
       /\ entries[i].absolute = pathResolve(opt.cwd, expectedPath(i))

DotDotWarning == <<"TAR_ENTRY_ERROR", "path contains '..'">>

\* The path of the i-th header keeps a '..' segment after strip.
keepsDotDot(i) ==
  /\ Len(segments(i)) >= opt.strip
  /\ Includes(Slice(segments(i), opt.strip), <<DOT, DOT>>)

keptExisting(i) ==
  /\ opt.keep
  /\ "lstat" \in entries[i].issued \ (entries[i].out \cup entries[i].failed)

\* The number of times CHECKFS has called PEND for one entry
pended == IF opt.sync THEN 0 ELSE 1

\* C20: Under keep, when lstat of an entry's absolute path succeeds, nothing
\* is issued at that path for the entry (only the mkdir of cwd and of the
\* parent, and the lstat itself, were made); the entry is drained, its
\* reservation is released and PENDING has been decremented once.
C20_KeepLeavesExisting ==
  \A i \in 1..Len(entries) :
    keptExisting(i)
    => /\ entries[i].issued \subseteq {"mkdirCwd", "mkdirParent", "lstat"}
       /\ entries[i].drained
       /\ i \notin running
       /\ ~opt.sync => i \in released
       /\ Len(entries) = 1 => PENDING = pended - 1

\* A File entry with an mtime found something at its path under keep.
C20_Witness ==
  /\ Len(entries) = 1
  /\ ~opt.sync
  /\ entries[1].type = "File" /\ entries[1].mtime
  /\ keptExisting(1)
  /\ PENDING = 0

\* The lstat of entry i has shown what is at its absolute path, which is
\* not cwd, and the entry is not skipped for it.
found(i, kind) ==
  /\ ~entries[i].st.err
  /\ entries[i].st.kind = kind
  /\ entries[i].absolute # opt.cwd
  /\ ~opt.keep
  /\ ~(opt.newer /\ entries[i].mtime /\ entries[i].st.newer)

\* The reuse condition as the claim states it
reusableKind(i) ==
  /\ entries[i].type \in FileTypes
  /\ ~opt.unlink
  /\ ~isWindows
  /\ entries[i].st.nlink <= 1

\* C21: When lstat shows a regular file and the entry is not skipped, no
\* unlink is issued on the path exactly when the entry is a File, OldFile or
\* ContiguousFile, unlink is off, the platform is not Windows and nlink is
\* at most 1; otherwise the file is unlinked.
C21_ReuseDecision ==
  \A i \in 1..Len(entries) :
    found(i, "file") => ("unlink" \notin entries[i].issued <=> reusableKind(i))

\* Entry i carries a mode that differs from the permission bits lstat
\* showed, and noChmod is off.
modeDiffers(i) ==
  /\ ~opt.noChmod
  /\ entries[i].mode # UNDEFINED
  /\ entries[i].st.mode # entries[i].mode

\* C22: When lstat shows a directory and the entry is a Directory or a
\* GNUDumpDir, no rmdir and no unlink is issued on the path; chmod is issued
\* exactly when the entry's mode differs from the directory's; and unless a
\* chmod is pending or has failed the directory is made.
C22_DirectoryKept ==
  \A i \in 1..Len(entries) :
    (found(i, "dir") /\ entries[i].type \in DirTypes)
    => /\ "rmdir" \notin entries[i].issued
       /\ "unlink" \notin entries[i].issued
       /\ "chmod" \in entries[i].issued <=> modeDiffers(i)
       /\ ("chmod" \notin entries[i].out /\ ~warned(i, "TAR_ENTRY_ERROR"))
          => "mkdir" \in entries[i].issued

\* The calls that create the entry at its path
CreateCalls == {"stream", "mkdir", "link", "symlink"}

\* The rmdir of entry i has returned an error: recorded by its callback, or
\* handed by UnpackSync to MAKEFS, which reports it.
rmdirFailed(i) ==
  \/ "rmdir" \in entries[i].failed
  \/ opt.sync /\ Includes(entries[i].warns, <<"TAR_ENTRY_ERROR", "rmdir">>)

\* C23: When an entry that is not a directory finds a directory at its path
\* (not cwd), rmdir is issued on it. If the rmdir succeeded the entry is
\* created at the path; if it failed the entry has a TAR_ENTRY_ERROR warning
\* with the rmdir error, is drained, and neither an unlink nor a creation is
\* issued at the path.
C23_DirectoryReplaced ==
  \A i \in 1..Len(entries) :
    (found(i, "dir") /\ entries[i].type \notin DirTypes)
    => /\ "rmdir" \in entries[i].issued
       /\ ("rmdir" \notin entries[i].out /\ ~rmdirFailed(i))
          => entries[i].issued \cap CreateCalls # {}
       /\ rmdirFailed(i)
          => /\ Includes(entries[i].warns, <<"TAR_ENTRY_ERROR", "rmdir">>)
             /\ entries[i].drained
             /\ "unlink" \notin entries[i].issued
             /\ entries[i].issued \cap CreateCalls = {}

\* The queue keys of fn: its canonical paths and their ancestor directories
ownKeys(fn) == ownPaths(fn) \cup ownDirs(fn)

\* f and g each reserved one leaf path; the two paths differ and neither is
\* an ancestor of the other.
separateLeaves(f, g) ==
  /\ f # g
  /\ Len(reservations[f].paths) = 1 /\ Len(reservations[g].paths) = 1
  /\ ownPaths(f) \cap ownKeys(g) = {}
  /\ ownPaths(g) \cap ownKeys(f) = {}

\* C24: Two handlers on separate leaf paths, with no other reservation on
\* those paths or their ancestors, are both started by their reserve() calls
\* and, until one releases, run together.
C24_SharedDirsParallel ==
  \A f \in reserved : \A g \in reserved :
    (/\ separateLeaves(f, g)
     /\ \A h \in reserved \ {f, g} : ownKeys(h) \cap (ownKeys(f) \cup ownKeys(g)) = {})
    => /\ {f, g} \subseteq started
       /\ {f, g} \ released \subseteq running

\* Two handlers below the same directory run at the same time.
C24_Witness ==
  \E f \in running : \E g \in running :
    /\ separateLeaves(f, g)
    /\ ownDirs(f) \cap ownDirs(g) # {}

\* Entry i went through the reconciler and is finished: every call it made
\* has returned and, in Unpack, its reservation is released.
reconciled(i) ==
  /\ entries[i].issued # {}
  /\ entries[i].out = {}
  /\ opt.sync \/ entries[i].status = "released"

\* C25: The directory cache is invalidated by the kind rule once more after
\* an entry's last filesystem call: when the only entry of an archive is
\* finished, the cache holds no key that the rule removes for that entry.
C25_CachePrunedAfter ==
  (Len(entries) = 1 /\ reconciled(1)) => PRUNECACHE(cur, 1).dirCache = dirCache

\* C26: For every path, normalizing unicode after separator normalization
\* and trailing-slash stripping gives the same string as normalizing
\* unicode first.  The normal form decides it: under "NFD" no code point
\* becomes or stops being a separator and both orders agree; under "NFKC"
\* U+FF3C becomes "\", which on Windows only the unicode-first order turns
\* into "/" and strips.
C26_OrderIndependent ==
  \A i \in 1..Len(entries) : entries[i].a = entries[i].b

\* C27: Invoking the release callback of a handler that has already
\* released changes nothing: no queue, reservation or running set, and no
\* handler is started.
C27_ReleaseIdempotent ==
  \A i \in released : release(cur, i) = cur

\* A File entry has failed twice, so its release callback was invoked
\* twice, while the handler of a later entry on the same path is running.
C27_Witness ==
  \E i \in released : \E j \in running :
    /\ entries[i].type = "File"
    /\ Len(entries[i].warns) >= 2
    /\ \A k \in 1..Len(entries[i].warns) :
         entries[i].warns[k][1] = "TAR_ENTRY_ERROR"
    /\ ownPaths(i) \cap ownPaths(j) # {}

\* The number of TAR_ENTRY_ERROR warnings of entry i
RECURSIVE errorCount(_)
errorCount(w) ==
  IF Len(w) = 0 THEN 0
  ELSE (IF Head(w)[1] = "TAR_ENTRY_ERROR" THEN 1 ELSE 0) + errorCount(Tail(w))

\* C28: Every entry is dispatched to MAKEFS at most once, and at most one
\* error is reported for it.
C28_DispatchedOnce ==
  \A i \in 1..Len(entries) :
    entries[i].made <= 1 /\ errorCount(entries[i].warns) <= 1

\* Unpack[HARDLINK]: the existing-file argument of fs.link for entry i
hardlinkTarget(i) ==
  normalizeWindowsPath(pathResolve(opt.cwd, entries[i].linkpath))

\* C29: With preservePaths off, the existing-file argument of every link
\* call made for a Link entry is cwd or lies under cwd.
C29_LinkTargetWithinCwd ==
  \A i \in 1..Len(entries) :
    (/\ ~opt.preservePaths
     /\ entries[i].type = "Link"
     /\ "link" \in entries[i].issued)
    => within(hardlinkTarget(i), opt.cwd)

====
